---- MODULE Spec2Model ----
(***************************************************************************)
(* A model of the graph engine of language_atomics_metagraph:              *)
(*   - MetaGraph, the in-memory vertex/arc container (MetaGraph.py),       *)
(*   - the dfs/bfs traversal protocol of Vertex (MetaGraph.py),            *)
(*   - Knowledge.slice, the bounded subgraph extraction (Knowledge.py).    *)
(*                                                                         *)
(* Python objects are compared by identity, so every Vertex carries an     *)
(* object handle `obj`; an arc refers to its start and end by a reference  *)
(* holding the handle together with the two immutable fields (id, name)    *)
(* the code reads through the reference.                                   *)
(***************************************************************************)
EXTENDS Integers, Sequences, FiniteSets, TLC

VARIABLES graph, last,
          tgraph, tcfg, tlog, tresult, tphase,
          store, concept, sphase, sargs, strace,
          alhs, arhs, aret, acall,
          said

vars == <<graph, last, tgraph, tcfg, tlog, tresult, tphase,
          store, concept, sphase, sargs, strace,
          alhs, arhs, aret, acall,
          said>>

gvars == <<graph, last>>
tvars == <<tgraph, tcfg, tlog, tresult, tphase>>
svars == <<store, concept, sphase, sargs, strace>>
avars == <<alhs, arhs, aret, acall>>
lvars == <<said>>

(***************************************************************************)
(* Bounds of the container model.                                          *)
(***************************************************************************)
MaxArcs == 2

Containers == {"lhs", "rhs"}
Names == {"A", "B"}
Ids == {-1, 1}

\* A reference to a Vertex object; NoRef stands for Python's None.
Ref(v) == [obj |-> v.obj, id |-> v.id, name |-> v.name]
NoRef == [obj |-> 0, id |-> 0, name |-> ""]

\* Keys accepted by get_vertex: a name (str) or a numeric id (int).
StrKey(n) == [int |-> FALSE, id |-> 0, name |-> n]
IntKey(i) == [int |-> TRUE, id |-> i, name |-> ""]
Keys == {StrKey(n) : n \in Names} \cup {IntKey(i) : i \in Ids}

\* The arguments of join besides the two keys: the defaults of the signature,
\* and the tuple the model calls join with, every argument given explicitly.
DefaultArgs == [weight |-> 1, name |-> "", anchor |-> NoRef, guid |-> "None", aid |-> -1]
GivenArgs == [weight |-> 2, name |-> "x", anchor |-> [obj |-> 0, id |-> 9, name |-> ""],
              guid |-> "g1", aid |-> 7]
ArcArgs == {GivenArgs}

(***************************************************************************)
(* Vertex and Arc constructors.                                            *)
(***************************************************************************)
uuid4 == "uuid4"

Arc(start, end, id, weight, name, anchor, guid) ==
    [id |-> id,
     guid |-> IF guid # "None" THEN guid ELSE uuid4,
     name |-> name,
     weight |-> weight,
     start |-> start,
     end |-> end,
     anchor |-> anchor]

Vertex(obj, id, weight, name, guid) ==
    [obj |-> obj,
     id |-> id,
     guid |-> IF guid # "None" THEN guid ELSE uuid4,
     name |-> name,
     weight |-> weight,
     arcs |-> <<>>]

new_vertex(obj, id, weight, name, guid) == Vertex(obj, id, weight, name, guid)

(***************************************************************************)
(* MetaGraph: `vertices` is a dict, modelled as the sequence of its values *)
(* in insertion order; the key of an entry is the name of its vertex.      *)
(***************************************************************************)
First(S) == CHOOSE i \in S : \A j \in S : i <= j

\* dict.get(name, None): the position of the entry, 0 for None.
vertices_get(g, name) ==
    LET hits == {i \in 1..Len(g) : g[i].name = name}
    IN IF hits = {} THEN 0 ELSE First(hits)

get_vertex(g, key) ==
    IF key.int
    THEN LET hits == {i \in 1..Len(g) : g[i].id = key.id}
         IN IF hits = {} THEN 0 ELSE First(hits)
    ELSE vertices_get(g, key.name)

add_overwrite(g, vertex) ==
    IF vertices_get(g, vertex.name) # 0
    THEN [g |-> [g EXCEPT ![vertices_get(g, vertex.name)] = vertex], ret |-> "True"]
    ELSE [g |-> Append(g, vertex), ret |-> "True"]

add(g, vertex) ==
    IF vertices_get(g, vertex.name) # 0
    THEN [g |-> g, ret |-> "False"]
    ELSE [g |-> Append(g, vertex), ret |-> "True"]

join_at_end_vertex(g, a, b, weight, name, anchor, guid, aid) ==
    LET ia == get_vertex(g, a)
        ib == get_vertex(g, b)
    IN IF ia = 0 THEN [g |-> g, ret |-> "None"]
       ELSE IF ib = 0 THEN [g |-> g, ret |-> "None"]
       ELSE [g |-> [g EXCEPT ![ib].arcs =
                       Append(@, Arc(Ref(g[ia]), Ref(g[ib]), aid, weight, name, anchor, guid))],
             ret |-> "Arc"]

join(g, a, b, weight, name, anchor, guid, aid) ==
    LET ia == get_vertex(g, a)
        ib == get_vertex(g, b)
    IN IF ia = 0 THEN [g |-> g, ret |-> "None"]
       ELSE IF ib = 0 THEN [g |-> g, ret |-> "None"]
       ELSE [g |-> [g EXCEPT ![ia].arcs =
                       Append(@, Arc(Ref(g[ia]), Ref(g[ib]), aid, weight, name, anchor, guid))],
             ret |-> "Arc"]

\* list.remove(x): drops the first element equal to x.
RemoveAt(s, i) == [k \in 1..(Len(s) - 1) |-> IF k < i THEN s[k] ELSE s[k + 1]]

\* Vertex.detach(b): b is a Vertex object, compared by identity.
vertex_detach(v, b) ==
    LET hits == {i \in 1..Len(v.arcs) : v.arcs[i].end.obj = b.obj}
    IN IF hits = {} THEN [v |-> v, ret |-> "False"]
       ELSE [v |-> [v EXCEPT !.arcs = RemoveAt(@, First(hits))], ret |-> "True"]

detach(g, a, b) ==
    LET i == vertices_get(g, a)
    IN IF i = 0 THEN [g |-> g, ret |-> "False"]
       ELSE [g |-> [g EXCEPT ![i] = vertex_detach(g[i], b).v],
             ret |-> vertex_detach(g[i], b).ret]

\* MetaGraph.remove(vertex), vertex a member: the scan skips every vertex
\* whose id equals the id of the removed one, and matches arcs by id.
remove(g, vertex) ==
    LET purged == [i \in 1..Len(g) |->
                     IF g[i].id = vertex.id
                     THEN g[i]
                     ELSE [g[i] EXCEPT !.arcs =
                             SelectSeq(@, LAMBDA a : ~((a.end.id = vertex.id)
                                                       \/ (a.start.id = vertex.id)))]]
    IN SelectSeq(purged, LAMBDA v : v.name # vertex.name)

RECURSIVE remove_all(_, _)
remove_all(g, remove_list) ==
    IF remove_list = <<>> THEN g
    ELSE remove_all(remove(g, Head(remove_list)), Tail(remove_list))

filter(g, matches) ==
    LET remove_list == SelectSeq(g, LAMBDA v : v.id \notin matches)
    IN remove_all(g, remove_list)

to_set(g) == {g[i].id : i \in 1..Len(g)}

num_vertices(g) == Len(g)

RECURSIVE SumArcs(_, _)
SumArcs(g, i) == IF i > Len(g) THEN 0 ELSE Len(g[i].arcs) + SumArcs(g, i + 1)
num_arcs(g) == SumArcs(g, 1)

\* Object identity: the handles a container holds alive (its members and
\* whatever its arcs still refer to); a newly constructed object gets a handle
\* none of the live objects has.
InUse(g) ==
    {g[i].obj : i \in 1..Len(g)}
        \cup UNION {UNION {{g[i].arcs[j].start.obj, g[i].arcs[j].end.obj} :
                               j \in 1..Len(g[i].arcs)} : i \in 1..Len(g)}

FreshObj(used) == First({k \in 1..(Cardinality(used) + 1) : k \notin used})

\* copy_to, first loop: one new vertex per vertex of self, added to copy.
RECURSIVE clone_vertices(_, _, _)
clone_vertices(self, copy, i) ==
    IF i > Len(self) THEN copy
    ELSE clone_vertices(self,
             add(copy, new_vertex(FreshObj(InUse(self) \cup InUse(copy)),
                                  self[i].id, self[i].weight,
                                  self[i].name, self[i].guid)).g,
             i + 1)

\* copy_to, second loop: every arc of self joined into copy by the names of
\* its endpoints.
RECURSIVE clone_arcs(_, _, _, _)
clone_arcs(self, copy, i, j) ==
    IF i > Len(self) THEN copy
    ELSE IF j > Len(self[i].arcs) THEN clone_arcs(self, copy, i + 1, 1)
    ELSE LET a == self[i].arcs[j]
         IN clone_arcs(self,
                join(copy, StrKey(a.start.name), StrKey(a.end.name),
                     a.weight, a.name, a.anchor, a.guid, a.id).g,
                i, j + 1)

copy_to(self, copy) ==
    clone_arcs(self, clone_vertices(self, copy, 1), 1, 1)

\* MetaGraph.clone(): copy_to( MetaGraph() )
clone(self) == copy_to(self, <<>>)

(***************************************************************************)
(* The container as a state machine: each operation of the MetaGraph API   *)
(* an action on the container "lhs".  `last` records the last call and its *)
(* result.                                                                 *)
(***************************************************************************)
NoCall == [op |-> "none", c |-> "lhs", a |-> StrKey(""), b |-> StrKey(""),
           v |-> NoRef, args |-> DefaultArgs, ret |-> "None"]

Members(g) == {Ref(g[i]) : i \in 1..Len(g)}
Objs(g) == {g[i].obj : i \in 1..Len(g)}
ArcsOf(g) == UNION {{g[i].arcs[j] : j \in 1..Len(g[i].arcs)} : i \in 1..Len(g)}

Add(c) ==
    \E n \in Names, i \in Ids :
        LET obj == FreshObj(InUse(graph[c]))
            r == add(graph[c], Vertex(obj, i, 1, n, "None"))
        IN /\ graph' = [graph EXCEPT ![c] = r.g]
           /\ last' = [NoCall EXCEPT !.op = "add", !.c = c,
                         !.v = [obj |-> obj, id |-> i, name |-> n],
                         !.ret = r.ret]

Join(c) ==
    \E a \in Keys, b \in Keys, args \in ArcArgs :
        /\ num_arcs(graph[c]) < MaxArcs
        /\ LET r == join(graph[c], a, b, args.weight, args.name, args.anchor,
                         args.guid, args.aid)
           IN /\ graph' = [graph EXCEPT ![c] = r.g]
              /\ last' = [NoCall EXCEPT !.op = "join", !.c = c, !.a = a, !.b = b,
                            !.args = args, !.ret = r.ret]

\* join with a vertex of the container given as the anchor of the arc.
JoinAnchored(c) ==
    \E a \in Keys, b \in Keys, anchor \in Members(graph[c]) :
        /\ num_arcs(graph[c]) < MaxArcs
        /\ LET args == [GivenArgs EXCEPT !.anchor = anchor]
               r == join(graph[c], a, b, args.weight, args.name, args.anchor,
                         args.guid, args.aid)
           IN /\ graph' = [graph EXCEPT ![c] = r.g]
              /\ last' = [NoCall EXCEPT !.op = "join", !.c = c, !.a = a, !.b = b,
                            !.args = args, !.ret = r.ret]

Detach(c) ==
    \E n \in Names, b \in Members(graph[c]) :
        LET r == detach(graph[c], n, b)
        IN /\ graph' = [graph EXCEPT ![c] = r.g]
           /\ last' = [NoCall EXCEPT !.op = "detach", !.c = c, !.a = StrKey(n),
                         !.v = b, !.ret = r.ret]

Remove(c) ==
    \E i \in 1..Len(graph[c]) :
        /\ graph' = [graph EXCEPT ![c] = remove(graph[c], graph[c][i])]
        /\ last' = [NoCall EXCEPT !.op = "remove", !.c = c, !.v = Ref(graph[c][i])]

Filter(c) ==
    \E matches \in SUBSET Ids :
        /\ graph[c] # <<>>
        /\ graph' = [graph EXCEPT ![c] = filter(graph[c], matches)]
        /\ last' = [NoCall EXCEPT !.op = "filter", !.c = c]

\* The objects of g named anew, the vertex at position i by the handle i.
\* Objects are only ever compared for identity, and every arc of a copy made
\* by copy_to joins two of the copy's own vertices.
Rehandle(g) ==
    LET pos(h) == CHOOSE i \in 1..Len(g) : g[i].obj = h
        ref(r) == [r EXCEPT !.obj = pos(r.obj)]
    IN [i \in 1..Len(g) |->
          [g[i] EXCEPT !.obj = i,
                       !.arcs = [j \in 1..Len(g[i].arcs) |->
                                   [g[i].arcs[j] EXCEPT !.start = ref(@),
                                                        !.end = ref(@)]]]]

\* g = g.clone(): the program goes on with the copy and drops the original.
Clone(c) ==
    /\ graph[c] # <<>>
    /\ graph' = [graph EXCEPT ![c] = Rehandle(clone(graph[c]))]
    /\ last' = [NoCall EXCEPT !.op = "clone", !.c = c]

GraphInit ==
    /\ graph = [c \in Containers |-> <<>>]
    /\ last = NoCall

GraphAdd == Add("lhs") /\ UNCHANGED <<tvars, svars, avars, lvars>>
GraphJoin == Join("lhs") /\ UNCHANGED <<tvars, svars, avars, lvars>>
GraphJoinAnchored == JoinAnchored("lhs") /\ UNCHANGED <<tvars, svars, avars, lvars>>
GraphDetach == Detach("lhs") /\ UNCHANGED <<tvars, svars, avars, lvars>>
GraphRemove == Remove("lhs") /\ UNCHANGED <<tvars, svars, avars, lvars>>
GraphFilter == Filter("lhs") /\ UNCHANGED <<tvars, svars, avars, lvars>>
GraphClone == Clone("lhs") /\ UNCHANGED <<tvars, svars, avars, lvars>>

(***************************************************************************)
(* The traversal protocol of Vertex.  The graph walked is tgraph: for each *)
(* vertex its arc list (the end of each arc, in list order) and its anchor *)
(* (0 for None).  The callbacks are inputs of the call: each returns       *)
(* ERROR_CONTINUE except at the deviations the configuration lists.        *)
(* A traversal function takes and returns the record                       *)
(*   [result, visited, log]                                                *)
(* of its return value, the shared `visited` set and the sequence of       *)
(* callback invocations made so far.                                       *)
(***************************************************************************)
MaxTArcs == 2
MaxDepth == 3

TV == {1, 2, 3}
TRoot == 1

NOERROR == "NOERROR"
ERROR_CONTINUE == "ERROR_CONTINUE"
ERROR_NO_MORE_ITEMS == "ERROR_NO_MORE_ITEMS"
ERROR_FAIL == "ERROR_FAIL"
TypeError == "TypeError"

Proceed == {NOERROR, ERROR_CONTINUE}

\* The value a callback returns: fn, preproc or postproc on vertex v.
Callback(cfg, kind, v) ==
    IF \E d \in cfg.dev : d.kind = kind /\ d.v = v
    THEN (CHOOSE d \in cfg.dev : d.kind = kind /\ d.v = v).result
    ELSE ERROR_CONTINUE

Invoke(cfg, kind, v, level, st) ==
    [result |-> Callback(cfg, kind, v),
     visited |-> st.visited,
     log |-> Append(st.log, [kind |-> kind, v |-> v, level |-> level,
                             result |-> Callback(cfg, kind, v)])]

Return(code, st) == [st EXCEPT !.result = code]
Visited(v, st) == [st EXCEPT !.visited = @ \cup {v}]

RECURSIVE visit(_, _, _, _, _, _)
RECURSIVE traverse_dfs(_, _, _, _, _)
RECURSIVE traverse_dfs_loop(_, _, _, _, _, _)
RECURSIVE traverse_bfs(_, _, _, _, _)
RECURSIVE traverse_bfs_level(_, _, _, _, _, _)
RECURSIVE traverse_bfs_next(_, _, _, _, _, _)

visit_anchor_without_post(g, cfg, self, maxlevel, isdfs, st0) ==
    LET anchor == g[self].anchor
        s1 == Visited(anchor, st0)
        s2 == IF cfg.preproc THEN Invoke(cfg, "pre", anchor, maxlevel, s1) ELSE s1
    IN IF cfg.preproc /\ s2.result = ERROR_NO_MORE_ITEMS THEN Return(ERROR_CONTINUE, s2)
       ELSE IF cfg.preproc /\ s2.result \notin Proceed THEN s2
       ELSE LET s3 == Invoke(cfg, "fn", anchor, maxlevel, s2)
            IN IF s3.result \notin (Proceed \cup {ERROR_NO_MORE_ITEMS}) THEN s3
               ELSE IF isdfs THEN traverse_dfs(g, cfg, anchor, maxlevel, s3)
               ELSE traverse_bfs(g, cfg, anchor, maxlevel, s3)

\* Vertex.visit, from the anchor on: pre hook, fn, post hook on the anchor,
\* then the walk goes on from the anchor with the same maxlevel.
visit_anchor(g, cfg, self, maxlevel, isdfs, st0) ==
    LET anchor == g[self].anchor
        s1 == Visited(anchor, st0)
        s2 == IF cfg.preproc THEN Invoke(cfg, "pre", anchor, maxlevel, s1) ELSE s1
    IN IF cfg.preproc /\ s2.result = ERROR_NO_MORE_ITEMS THEN Return(ERROR_CONTINUE, s2)
       ELSE IF cfg.preproc /\ s2.result \notin Proceed THEN s2
       ELSE LET s3 == Invoke(cfg, "fn", anchor, maxlevel, s2)
            IN IF s3.result \notin (Proceed \cup {ERROR_NO_MORE_ITEMS}) THEN s3
               ELSE LET s4 == IF cfg.postproc
                              THEN Invoke(cfg, "post", anchor, maxlevel, s3) ELSE s3
                    IN IF cfg.postproc /\ s4.result = ERROR_NO_MORE_ITEMS
                       THEN Return(ERROR_CONTINUE, s4)
                       ELSE IF cfg.postproc /\ s4.result \notin Proceed THEN s4
                       ELSE IF isdfs
                            THEN traverse_dfs(g, cfg, anchor, maxlevel, s4)
                            ELSE traverse_bfs(g, cfg, anchor, maxlevel, s4)

visit(g, cfg, self, maxlevel, isdfs, st) ==
    LET s1 == Invoke(cfg, "fn", self, maxlevel, Visited(self, st))
    IN IF s1.result = ERROR_NO_MORE_ITEMS THEN Return(ERROR_CONTINUE, s1)
       ELSE IF cfg.visitanchor = FALSE \/ g[self].anchor = 0 THEN s1
       ELSE IF s1.result \notin Proceed THEN s1
       ELSE visit_anchor(g, cfg, self, maxlevel, isdfs, s1)

traverse_dfs_loop_unmarked(g, cfg, self, maxlevel, i, st) ==
    IF Len(st.log) > 6 * Cardinality(TV) THEN Return("RecursionError", st)
    ELSE IF i > Len(g[self].arcs) THEN st
    ELSE LET end == g[self].arcs[i]
             s3 == visit(g, cfg, end, maxlevel, TRUE, st)
         IN IF s3.result \notin Proceed THEN s3
            ELSE LET s4 == traverse_dfs(g, cfg, end, maxlevel - 1, s3)
                 IN IF s4.result \notin Proceed THEN s4
                    ELSE traverse_dfs_loop(g, cfg, self, maxlevel, i + 1, s4)

\* The body of the loop `for a in self.arcs` of traverse_dfs, from arc i on;
\* st.result is the value of the local `result`.
traverse_dfs_loop(g, cfg, self, maxlevel, i, st) ==
    IF i > Len(g[self].arcs) THEN st
    ELSE LET end == g[self].arcs[i]
         IN IF end \in st.visited THEN traverse_dfs_loop(g, cfg, self, maxlevel, i + 1, st)
            ELSE LET s1 == Visited(end, st)
                     s2 == IF cfg.preproc THEN Invoke(cfg, "pre", end, maxlevel, s1) ELSE s1
                 IN IF cfg.preproc /\ s2.result = ERROR_NO_MORE_ITEMS
                    THEN Return(ERROR_CONTINUE, s2)
                    ELSE IF cfg.preproc /\ s2.result \notin Proceed THEN s2
                    ELSE LET s3 == visit(g, cfg, end, maxlevel, TRUE, s2)
                         IN IF s3.result = ERROR_NO_MORE_ITEMS THEN Return(ERROR_CONTINUE, s3)
                            ELSE IF s3.result \notin Proceed THEN s3
                            ELSE LET s4 == traverse_dfs(g, cfg, end, maxlevel - 1, s3)
                                 IN IF s4.result \notin Proceed THEN s4
                                    ELSE LET s5 == IF cfg.postproc
                                                   THEN Invoke(cfg, "post", end, maxlevel, s4)
                                                   ELSE s4
                                         IN IF cfg.postproc /\ s5.result = ERROR_NO_MORE_ITEMS
                                            THEN Return(ERROR_CONTINUE, s5)
                                            ELSE IF cfg.postproc /\ s5.result \notin Proceed
                                            THEN s5
                                            ELSE traverse_dfs_loop(g, cfg, self, maxlevel,
                                                                   i + 1, s5)

traverse_dfs_any_level(g, cfg, self, maxlevel, st) ==
    traverse_dfs_loop(g, cfg, self, maxlevel, 1, Return(NOERROR, st))

traverse_dfs(g, cfg, self, maxlevel, st) ==
    IF maxlevel <= 0 THEN Return(NOERROR, st)
    ELSE traverse_dfs_loop(g, cfg, self, maxlevel, 1, Return(NOERROR, st))

\* traverse_bfs, first loop ("Traverse current level"), from arc i on.
traverse_bfs_level(g, cfg, self, maxlevel, i, st) ==
    IF i > Len(g[self].arcs)
    THEN IF maxlevel <= 1 THEN st
         ELSE traverse_bfs_next(g, cfg, self, maxlevel, 1, st)
    ELSE LET end == g[self].arcs[i]
         IN IF end \in st.visited THEN traverse_bfs_level(g, cfg, self, maxlevel, i + 1, st)
            ELSE LET s1 == Visited(end, st)
                     s2 == IF cfg.preproc THEN Invoke(cfg, "pre", end, maxlevel, s1) ELSE s1
                 IN IF cfg.preproc /\ s2.result = ERROR_NO_MORE_ITEMS
                    THEN Return(ERROR_CONTINUE, s2)
                    ELSE IF cfg.preproc /\ s2.result \notin Proceed THEN s2
                    ELSE LET s3 == visit(g, cfg, end, maxlevel, FALSE, s2)
                         IN IF s3.result = ERROR_NO_MORE_ITEMS THEN Return(ERROR_CONTINUE, s3)
                            ELSE IF s3.result \notin Proceed THEN s3
                            ELSE LET s5 == IF cfg.postproc
                                           THEN Invoke(cfg, "post", end, maxlevel, s3)
                                           ELSE s3
                                 IN IF cfg.postproc /\ s5.result = ERROR_NO_MORE_ITEMS
                                    THEN Return(ERROR_CONTINUE, s5)
                                    ELSE IF cfg.postproc /\ s5.result \notin Proceed
                                    THEN s5
                                    ELSE traverse_bfs_level(g, cfg, self, maxlevel, i + 1, s5)

\* traverse_bfs, second loop ("Recurse into next level"), from arc i on.
traverse_bfs_next(g, cfg, self, maxlevel, i, st) ==
    IF i > Len(g[self].arcs) THEN st
    ELSE LET end == g[self].arcs[i]
         IN IF end \in st.visited THEN traverse_bfs_next(g, cfg, self, maxlevel, i + 1, st)
            ELSE LET s1 == traverse_bfs(g, cfg, end, maxlevel - 1, st)
                 IN IF s1.result \notin Proceed THEN s1
                    ELSE traverse_bfs_next(g, cfg, self, maxlevel, i + 1, s1)

traverse_bfs(g, cfg, self, maxlevel, st) ==
    IF maxlevel <= 0 THEN Return(NOERROR, st)
    ELSE traverse_bfs_level(g, cfg, self, maxlevel, 1, Return(NOERROR, st))

NoWalk == [result |-> NOERROR, visited |-> {}, log |-> <<>>]

dfs_ignores_root_result(g, cfg, self) ==
    IF cfg.depth <= 0 THEN NoWalk
    ELSE traverse_dfs(g, cfg, self, cfg.depth - 1,
                      visit(g, cfg, self, cfg.depth, TRUE, Visited(self, NoWalk)))

dfs(g, cfg, self) ==
    IF cfg.depth <= 0 THEN NoWalk
    ELSE LET s1 == visit(g, cfg, self, cfg.depth, TRUE, Visited(self, NoWalk))
         IN IF s1.result = NOERROR \/ s1.result = ERROR_CONTINUE
            THEN traverse_dfs(g, cfg, self, cfg.depth - 1, s1)
            ELSE s1

\* bfs calls traverse_bfs with five of its seven parameters: the call raises
\* TypeError before the body of traverse_bfs runs.
bfs(g, cfg, self) ==
    IF cfg.depth <= 0 THEN NoWalk
    ELSE LET s1 == visit(g, cfg, self, cfg.depth, FALSE, Visited(self, NoWalk))
         IN IF s1.result = NOERROR \/ s1.result = ERROR_CONTINUE
            THEN Return(TypeError, s1)
            ELSE s1

(***************************************************************************)
(* The traversal as a state machine: the graph is fixed at construction,   *)
(* Dfs and Bfs are the two calls, each with its arguments.                 *)
(***************************************************************************)
RECURSIVE SeqsUpTo(_, _)
SeqsUpTo(S, n) ==
    IF n = 0 THEN {<<>>}
    ELSE SeqsUpTo(S, n - 1) \cup {Append(q, x) : q \in SeqsUpTo(S, n - 1), x \in S}

\* Vertices reachable from the root along arcs and anchors.
RECURSIVE TReach(_, _)
TReach(g, R) ==
    LET more == R \cup UNION {{g[v].arcs[i] : i \in 1..Len(g[v].arcs)} : v \in R}
                  \cup {g[v].anchor : v \in {w \in R : g[w].anchor # 0}}
    IN IF more = R THEN R ELSE TReach(g, more)

\* The graphs walked: at most MaxTArcs arcs and anchors (each an anchor on
\* another vertex) not counting the first anchor, and every arc and anchor
\* on a vertex reachable from the root.
TGraphs ==
    {g \in [TV -> [arcs : SeqsUpTo(TV, MaxTArcs), anchor : TV \cup {0}]] :
        /\ Len(g[1].arcs) + Len(g[2].arcs) + Len(g[3].arcs) <= MaxTArcs
        /\ Len(g[1].arcs) + Len(g[2].arcs) + Len(g[3].arcs)
              + Cardinality({v \in TV : g[v].anchor # 0}) <= MaxTArcs + 1
        /\ \A v \in TV : g[v].anchor # v
        /\ \A v \in TV \ TReach(g, {TRoot}) : g[v].arcs = <<>> /\ g[v].anchor = 0}

Deviation == [kind : {"fn", "pre", "post"}, v : TV,
              result : {NOERROR, ERROR_NO_MORE_ITEMS, ERROR_FAIL}]

\* The arguments of a call: the depth, the visitanchor flag, whether the two
\* hooks are given, and at most one callback invocation that deviates.
TCfgs ==
    {cfg \in [depth : -1..MaxDepth, visitanchor : BOOLEAN, preproc : BOOLEAN,
              postproc : BOOLEAN, dev : {{}} \cup {{d} : d \in Deviation}] :
        /\ cfg.preproc = cfg.postproc
        /\ \A d \in cfg.dev : d.kind # "fn" => cfg.preproc}

NoCfg == [depth |-> 0, visitanchor |-> FALSE, preproc |-> FALSE, postproc |-> FALSE,
          dev |-> {}]

TInit ==
    /\ tgraph \in TGraphs
    /\ tcfg = NoCfg
    /\ tlog = <<>>
    /\ tresult = "None"
    /\ tphase = "ready"

Dfs ==
    /\ tphase = "ready"
    /\ \E cfg \in TCfgs :
        /\ tcfg' = cfg
        /\ tlog' = dfs(tgraph, cfg, TRoot).log
        /\ tresult' = dfs(tgraph, cfg, TRoot).result
    /\ tphase' = "dfs"
    /\ UNCHANGED <<tgraph, gvars, svars, avars, lvars>>

Bfs ==
    /\ tphase = "ready"
    /\ \E cfg \in TCfgs :
        /\ tcfg' = cfg
        /\ tlog' = bfs(tgraph, cfg, TRoot).log
        /\ tresult' = bfs(tgraph, cfg, TRoot).result
    /\ tphase' = "bfs"
    /\ UNCHANGED <<tgraph, gvars, svars, avars, lvars>>

(***************************************************************************)
(* Knowledge: the persisted store and slice.  The store is the pair of the *)
(* vertices table and the arcs table; the id of an arc row is its position *)
(* in the arcs table, an anchor of 0 is "no anchor".                       *)
(***************************************************************************)
MaxStoreArcs == 2
MaxSliceDepth == 2

SNames == {"A", "B", "C", "D"}

to_id_next_row(name) == Len(store.vertices) + 1

\* Concept.to_id on the names of the model: the first four bytes of the
\* SHA-256 digest of the name read as an unsigned integer.  The integers of
\* the model stand for the digests, one for each name, collision-free.
to_id(name) ==
    CASE name = "A" -> 1
      [] name = "B" -> 2
      [] name = "C" -> 3
      [] name = "D" -> 4
      [] name = "E" -> 6
      [] name = "F" -> 7
      [] OTHER -> 5

NoRow == [id |-> 0, name |-> "", value |-> 0, guid |-> "None"]

\* The persistence adapter (GraphDatabase): row lookups and row creation.
get_vertex_by_name(st, name) ==
    IF \E i \in 1..Len(st.vertices) : st.vertices[i].name = name
    THEN st.vertices[CHOOSE i \in 1..Len(st.vertices) : st.vertices[i].name = name]
    ELSE NoRow

db_get_vertex(st, id) ==
    IF \E i \in 1..Len(st.vertices) : st.vertices[i].id = id
    THEN st.vertices[CHOOSE i \in 1..Len(st.vertices) : st.vertices[i].id = id]
    ELSE NoRow

add_vertex(st, name, id) ==
    [st EXCEPT !.vertices = Append(@, [id |-> id, name |-> name, value |-> 1,
                                        guid |-> "uuid4"])]

get_arc(st, aid) == st.arcs[aid]

RECURSIVE ArcIdsFrom(_, _, _)
ArcIdsFrom(st, vid, i) ==
    IF i > Len(st.arcs) THEN <<>>
    ELSE IF st.arcs[i].start = vid THEN <<i>> \o ArcIdsFrom(st, vid, i + 1)
    ELSE ArcIdsFrom(st, vid, i + 1)

get_arcs_for_vertex(st, vid) == ArcIdsFrom(st, vid, 1)

\* Knowledge.__getitem__: the row of the name, created when absent.
Knowledge_getitem(st, name) ==
    IF get_vertex_by_name(st, name) # NoRow
    THEN [store |-> st, v |-> get_vertex_by_name(st, name)]
    ELSE [store |-> add_vertex(st, name, to_id(name)),
          v |-> get_vertex_by_name(add_vertex(st, name, to_id(name)), name)]

\* Concept(v): the in-memory copy of a vertex row (its `value` is kept in the
\* weight field of the model's vertex record).
Concept(obj, v) ==
    [obj |-> obj, id |-> v.id, guid |-> v.guid, name |-> v.name, weight |-> v.value,
     arcs |-> <<>>]

Concept_clone(obj, v) == Concept(obj, v)

\* __traverse_subgraph and __create_node thread the record
\*   [concept, links, c, calls]
\* of the Conception's vertices, the links dict (in insertion order), the
\* Concept returned and the number of calls of __traverse_subgraph so far.
RECURSIVE traverse_subgraph(_, _, _, _)
RECURSIVE traverse_arcs(_, _, _, _, _)

create_node(st, acc, v, depth) ==
    IF v = 0 THEN [acc EXCEPT !.c = NoRef]
    ELSE traverse_subgraph(st, acc, db_get_vertex(st, v), depth)

\* the loop `for aid in arcs` of __traverse_subgraph, from position i on
traverse_arcs(st, acc, depth, arcs, i) ==
    IF i > Len(arcs) THEN acc
    ELSE LET a == get_arc(st, arcs[i])
             anchor == create_node(st, acc, a.anchor, depth - 1)
             start == create_node(st, anchor, a.start, depth - 1)
             end == create_node(st, start, a.end, depth - 1)
         IN traverse_arcs(st, end, depth, arcs, i + 1)

traverse_subgraph_no_links_at_bound(st, acc, v, depth) ==
    LET c == Concept_clone(FreshObj(InUse(acc.concept)), v)
        acc0 == [acc EXCEPT !.calls = @ + 1]
    IN IF depth < 0 THEN [acc0 EXCEPT !.c = Ref(c)]
       ELSE IF add(acc.concept, c).ret = "False" THEN [acc0 EXCEPT !.c = Ref(c)]
       ELSE LET arcs == get_arcs_for_vertex(st, v.id)
                acc1 == [acc0 EXCEPT !.concept = add(acc.concept, c).g,
                                     !.links = IF depth = 0 THEN acc.links
                                               ELSE Append(acc.links,
                                                           [start |-> v.id, arcs |-> arcs]),
                                     !.c = Ref(c)]
            IN [traverse_arcs(st, acc1, depth, arcs, 1) EXCEPT !.c = Ref(c)]

traverse_subgraph_revisits(st, acc, v, depth) ==
    LET c == Concept_clone(FreshObj(InUse(acc.concept)), v)
        acc0 == [acc EXCEPT !.calls = @ + 1]
    IN IF depth < 0 THEN [acc0 EXCEPT !.c = Ref(c)]
       ELSE LET arcs == get_arcs_for_vertex(st, v.id)
                acc1 == [acc0 EXCEPT !.concept = add(acc.concept, c).g,
                                     !.links = Append(acc.links,
                                                      [start |-> v.id, arcs |-> arcs]),
                                     !.c = Ref(c)]
            IN [traverse_arcs(st, acc1, depth, arcs, 1) EXCEPT !.c = Ref(c)]

traverse_subgraph(st, acc, v, depth) ==
    LET c == Concept_clone(FreshObj(InUse(acc.concept)), v)
        acc0 == [acc EXCEPT !.calls = @ + 1]
    IN IF depth < 0 THEN [acc0 EXCEPT !.c = Ref(c)]
       ELSE IF add(acc.concept, c).ret = "False" THEN [acc0 EXCEPT !.c = Ref(c)]
       ELSE LET arcs == get_arcs_for_vertex(st, v.id)
                acc1 == [acc0 EXCEPT !.concept = add(acc.concept, c).g,
                                     !.links = Append(acc.links,
                                                      [start |-> v.id, arcs |-> arcs]),
                                     !.c = Ref(c)]
            IN [traverse_arcs(st, acc1, depth, arcs, 1) EXCEPT !.c = Ref(c)]

RECURSIVE link_nodes(_, _, _, _, _)
link_nodes_of_root(st, g, links, k, i) ==
    IF k > 1 \/ k > Len(links) THEN g
    ELSE IF i > Len(links[k].arcs) THEN g
    ELSE LET a == get_arc(st, links[k].arcs[i])
         IN link_nodes(st,
                join(g, IntKey(links[k].start), IntKey(a.end), a.weight, a.name,
                     [obj |-> 0, id |-> a.anchor, name |-> ""], ToString(a.id), -1).g,
                links, k, i + 1)

\* __link_nodes: the arcs of links[k], from position i on, joined by the ids
\* of their endpoints; the arc id is passed in the guid position of join.
link_nodes(st, g, links, k, i) ==
    IF k > Len(links) THEN g
    ELSE IF i > Len(links[k].arcs) THEN link_nodes(st, g, links, k + 1, 1)
    ELSE LET a == get_arc(st, links[k].arcs[i])
         IN link_nodes(st,
                join(g, IntKey(links[k].start), IntKey(a.end), a.weight, a.name,
                     [obj |-> 0, id |-> a.anchor, name |-> ""], ToString(a.id), -1).g,
                links, k, i + 1)

\* Conception(): no vertices, no root.
NoConcept == [g |-> <<>>, root |-> NoRef]

\* Knowledge.load into an empty Conception; the result is the store (the
\* lookup of the root may have added a row), the Conception with its root,
\* the exception raised ("None" when the call returns) and the number of
\* calls of __traverse_subgraph made.
load(st, name, depth) ==
    LET found == Knowledge_getitem(st, name)
        walked == traverse_subgraph(found.store,
                                    [concept |-> <<>>, links |-> <<>>, c |-> NoRef,
                                     calls |-> 0],
                                    found.v, depth)
    IN IF found.v = NoRow
       THEN [store |-> found.store, concept |-> NoConcept, raised |-> "ValueError",
             calls |-> 0]
       ELSE [store |-> found.store,
             concept |-> [g |-> link_nodes(found.store, walked.concept, walked.links, 1, 1),
                          root |-> walked.c],
             raised |-> "None",
             calls |-> walked.calls]

\* Knowledge.slice(name, depth)
slice(st, name, depth) == load(st, name, depth)

(***************************************************************************)
(* The stores sliced.  Rows of the vertices table exist for "A" and for    *)
(* every name an arc mentions; at most one arc carries an anchor; every    *)
(* arc starts at a vertex reachable from "A" (other arcs play no part in a *)
(* slice from "A").  ExampleStores and ShortcutStores are the stores of    *)
(* two scenarios on four vertices, their four arcs in any order.           *)
(***************************************************************************)
SIds == {to_id(n) : n \in SNames}

ArcRow(i, start, end, anchor) ==
    [id |-> i, name |-> IF anchor = 0 THEN "IS" ELSE "HAS",
     weight |-> IF anchor = 0 THEN 9 ELSE 2,
     start |-> start, end |-> end, anchor |-> anchor]

Plain == [start : SIds, end : SIds, anchor : {0}]

Mentioned(q) ==
    {to_id("A")} \cup {q[i].start : i \in 1..Len(q)} \cup {q[i].end : i \in 1..Len(q)}
        \cup ({q[i].anchor : i \in 1..Len(q)} \ {0})

RECURSIVE RowsOf(_)
RowsOf(ids) ==
    IF ids = {} THEN <<>>
    ELSE LET id == First(ids)
         IN <<[id |-> id, name |-> CHOOSE n \in SNames : to_id(n) = id, value |-> 1,
               guid |-> "uuid4"]>> \o RowsOf(ids \ {id})

StoreOf(q) ==
    [vertices |-> RowsOf(Mentioned(q)),
     arcs |-> [i \in 1..Len(q) |-> ArcRow(i, q[i].start, q[i].end, q[i].anchor)]]

\* One hop: along an arc from its start to its end or to its anchor.
Hop(arcs, S) ==
    S \cup {arcs[i].end : i \in {k \in 1..Len(arcs) : arcs[k].start \in S}}
      \cup ({arcs[i].anchor : i \in {k \in 1..Len(arcs) : arcs[k].start \in S}} \ {0})

RECURSIVE WithinHops(_, _, _)
WithinHops(arcs, S, d) == IF d <= 0 THEN S ELSE WithinHops(arcs, Hop(arcs, S), d - 1)

\* q is a sequence of arcs each of which starts at a vertex reachable from "A".
Connected(q) ==
    LET reach == WithinHops(q, {to_id("A")}, Len(q))
    IN \A i \in 1..Len(q) : q[i].start \in reach

ExampleArcs ==
    {[start |-> to_id("A"), end |-> to_id("B"), anchor |-> 0],
     [start |-> to_id("B"), end |-> to_id("D"), anchor |-> 0],
     [start |-> to_id("B"), end |-> to_id("C"), anchor |-> 0],
     [start |-> to_id("C"), end |-> to_id("D"), anchor |-> 0]}

ExampleOrders == {q \in [1..4 -> ExampleArcs] : {q[i] : i \in 1..4} = ExampleArcs}

ExampleStores == {StoreOf(q) : q \in ExampleOrders}

\* A store in which "C" is reachable from "A" by a short and by a long path,
\* its four arcs in any order.
ShortcutArcs ==
    {[start |-> to_id("A"), end |-> to_id("B"), anchor |-> 0],
     [start |-> to_id("B"), end |-> to_id("C"), anchor |-> 0],
     [start |-> to_id("A"), end |-> to_id("C"), anchor |-> 0],
     [start |-> to_id("C"), end |-> to_id("D"), anchor |-> 0]}

ShortcutOrders == {q \in [1..4 -> ShortcutArcs] : {q[i] : i \in 1..4} = ShortcutArcs}

ShortcutStores == {StoreOf(q) : q \in ShortcutOrders}

NoSlice == [name |-> "", depth |-> 0]
\* No Language call made yet.
NoSaid == [verb |-> "none", args |-> <<>>, ret |-> NoRow]

NoTrace == [present |-> FALSE, raised |-> "None", calls |-> 0]

\* The arcs table: up to MaxStoreArcs arcs, none or one of them anchored.
SInit ==
    /\ \/ \E n \in 0..MaxStoreArcs : \E q \in [1..n -> Plain] :
             /\ Connected(q)
             /\ store = StoreOf(q)
       \/ \E n \in 1..MaxStoreArcs : \E q \in [1..n -> Plain] :
             \E i \in 1..n, x \in SIds :
                /\ Connected([q EXCEPT ![i].anchor = x])
                /\ store = StoreOf([q EXCEPT ![i].anchor = x])
       \/ store \in ExampleStores
       \/ store \in ShortcutStores
    /\ concept = NoConcept
    /\ sphase = "ready"
    /\ sargs = NoSlice
    /\ strace = NoTrace

\* c = kb.slice(name, depth), for the name "A" or a name the store lacks, at
\* a depth up to MaxSliceDepth or at depth 5.  strace records whether the
\* store held the name before the call, the exception raised and the number
\* of calls of __traverse_subgraph.
Slice ==
    /\ sphase = "ready"
    /\ \E name \in {"A", "Z"}, depth \in (-1..MaxSliceDepth) \cup {5} :
        /\ sargs' = [name |-> name, depth |-> depth]
        /\ store' = slice(store, name, depth).store
        /\ concept' = slice(store, name, depth).concept
        /\ strace' = [present |-> get_vertex_by_name(store, name) # NoRow,
                      raised |-> slice(store, name, depth).raised,
                      calls |-> slice(store, name, depth).calls]
    /\ sphase' = "sliced"
    /\ UNCHANGED <<gvars, tvars, avars, lvars>>

(***************************************************************************)
(* Conception: a MetaGraph with a root.  An operand of the set algebra is  *)
(* the record [cls, g, root] of its class, its vertices and its root; a    *)
(* call returns the record [raised, c] of the exception raised ("None"     *)
(* when the call returns) and the Conception it returns or has changed.    *)
(***************************************************************************)
MaxAlgArcs == 1

Conception == [cls |-> "Conception", g |-> <<>>, root |-> NoRef]

Returned(c) == [raised |-> "None", c |-> c]
Raised(e, c) == [raised |-> e, c |-> c]

\* Conception.new_vertex: Concept(name, id, weight, guid), four positional
\* arguments to Concept.__init__(self, v=None), raises TypeError.
Conception_new_vertex(obj, id, weight, name, guid) ==
    [raised |-> TypeError, v |-> Vertex(obj, id, weight, name, guid)]

\* self.new_vertex, by the class of self.
self_new_vertex(self, obj, id, weight, name, guid) ==
    IF self.cls = "Conception"
    THEN Conception_new_vertex(obj, id, weight, name, guid)
    ELSE [raised |-> "None", v |-> new_vertex(obj, id, weight, name, guid)]

\* self.copy_to(copy): the first vertex of self is cloned with
\* self.new_vertex; when that raises, copy is as it was.
Conception_copy_to(self, copy) ==
    IF self.g # <<>>
       /\ self_new_vertex(self, 0, self.g[1].id, self.g[1].weight, self.g[1].name,
                          self.g[1].guid).raised # "None"
    THEN Raised(self_new_vertex(self, 0, self.g[1].id, self.g[1].weight,
                                self.g[1].name, self.g[1].guid).raised, copy)
    ELSE Returned([copy EXCEPT !.g = copy_to(self.g, copy.g)])

\* Conception.remove
Conception_remove(self, vertex) ==
    IF self.root # NoRef /\ vertex.id = self.root.id
    THEN LET g == remove(self.g, vertex)
         IN [self EXCEPT !.g = g,
                         !.root = IF Len(g) > 0 THEN Ref(g[1]) ELSE NoRef]
    ELSE [self EXCEPT !.g = remove(self.g, vertex)]

\* MetaGraph.filter on a Conception: self.remove is Conception.remove.
RECURSIVE Conception_remove_all(_, _)
Conception_remove_all(self, remove_list) ==
    IF remove_list = <<>> THEN self
    ELSE Conception_remove_all(Conception_remove(self, Head(remove_list)),
                               Tail(remove_list))

Conception_filter(self, matches) ==
    Conception_remove_all(self, SelectSeq(self.g, LAMBDA v : v.id \notin matches))

\* The object a reference names (v = self.root): a member of self, or an
\* object outside it that has no arcs.
deref(self, ref) ==
    IF \E i \in 1..Len(self.g) : self.g[i].obj = ref.obj
    THEN self.g[CHOOSE i \in 1..Len(self.g) : self.g[i].obj = ref.obj]
    ELSE Vertex(ref.obj, ref.id, 1, ref.name, "None")

RECURSIVE join_root_arcs(_, _, _)
join_root_arcs(copy, arcs, i) ==
    IF i > Len(arcs) THEN copy
    ELSE join_root_arcs(
             [copy EXCEPT !.g = join(@, StrKey(arcs[i].start.name),
                                     StrKey(arcs[i].end.name), arcs[i].weight,
                                     arcs[i].name, arcs[i].anchor, arcs[i].guid,
                                     arcs[i].id).g],
             arcs, i + 1)

\* Conception.clone
Conception_clone(self) ==
    LET v == deref(self, self.root)
        made == Conception_new_vertex(FreshObj(InUse(self.g)), v.id, v.weight,
                                      v.name, v.guid)
        copy == IF self.root = NoRef THEN Conception
                ELSE [Conception EXCEPT !.root = Ref(made.v),
                                        !.g = add(<<>>, made.v).g]
    IN IF self.root # NoRef /\ made.raised # "None"
       THEN Raised(made.raised, Conception)
       ELSE IF Conception_copy_to(self, copy).raised # "None"
            THEN Raised(Conception_copy_to(self, copy).raised, Conception)
            ELSE IF self.root = NoRef THEN Conception_copy_to(self, copy)
                 ELSE Returned(join_root_arcs(Conception_copy_to(self, copy).c,
                                              v.arcs, 1))

\* Conception.union_update
union_update(self, rhs) == Conception_copy_to(rhs, self)

\* Conception.intersection_update
intersection_update(self, rhs) ==
    Returned(Conception_filter(self, to_set(self.g) \cap to_set(rhs.g)))

\* Conception.difference_update
difference_update(self, rhs) ==
    Returned(Conception_filter(self, to_set(self.g) \ to_set(rhs.g)))

\* Conception.symmetric_difference_update
symmetric_difference_update(self, rhs) ==
    LET rhsset == to_set(rhs.g)
        lhsset == to_set(self.g)
        result == (lhsset \ rhsset) \cup (rhsset \ lhsset)
        merged == Conception_copy_to(rhs, self)
    IN IF merged.raised # "None" THEN merged
       ELSE Returned(Conception_filter(merged.c, result))

\* Conception.union
union(self, rhs) ==
    IF Conception_clone(self).raised # "None" THEN Conception_clone(self)
    ELSE union_update(Conception_clone(self).c, rhs)

\* Conception.intersection
intersection(self, rhs) ==
    IF Conception_clone(self).raised # "None" THEN Conception_clone(self)
    ELSE intersection_update(Conception_clone(self).c, rhs)

\* Conception.difference
difference(self, rhs) ==
    IF Conception_clone(self).raised # "None" THEN Conception_clone(self)
    ELSE difference_update(Conception_clone(self).c, rhs)

\* Conception.symmetric_difference
symmetric_difference(self, rhs) ==
    IF Conception_clone(self).raised # "None" THEN Conception_clone(self)
    ELSE symmetric_difference_update(Conception_clone(self).c, rhs)

(***************************************************************************)
(* The operands of the set algebra.  An operand is built as the program    *)
(* builds it: Vertex objects added one by one, then arcs joined by name    *)
(* with the default arguments of join.  The receiver alhs is a Conception, *)
(* arhs a Conception or a MetaGraph; the root of a Conception is None or    *)
(* its first vertex.  ExampleLhs and ExampleRhs are the operands of the    *)
(* example scenario.                                                       *)
(***************************************************************************)
ANames == {"A", "B"}
AIds == {1, 2}

RECURSIVE add_all(_, _, _, _)
add_all(g, vs, i, off) ==
    IF i > Len(vs) THEN g
    ELSE add_all(add(g, Vertex(off + i, vs[i].id, 1, vs[i].name, "None")).g,
                 vs, i + 1, off)

RECURSIVE join_all(_, _, _)
join_all(g, js, i) ==
    IF i > Len(js) THEN g
    ELSE join_all(join(g, StrKey(js[i][1]), StrKey(js[i][2]), DefaultArgs.weight,
                       DefaultArgs.name, DefaultArgs.anchor, DefaultArgs.guid,
                       DefaultArgs.aid).g,
                  js, i + 1)

\* The vertices vs with the arcs js; off is the number of objects alive.
Built(vs, js, off) == join_all(add_all(<<>>, vs, 1, off), js, 1)

VertexLists ==
    {vs \in SeqsUpTo([name : ANames, id : AIds], 2) :
        \A i, j \in 1..Len(vs) : i # j => vs[i].name # vs[j].name}

ArcLists(vs) ==
    SeqsUpTo({vs[i].name : i \in 1..Len(vs)} \X {vs[i].name : i \in 1..Len(vs)},
             MaxAlgArcs)

Roots(g) == {NoRef} \cup (IF g = <<>> THEN {} ELSE {Ref(g[1])})

Named(names) == [i \in 1..Len(names) |-> [name |-> names[i], id |-> to_id(names[i])]]

ExampleLhs ==
    LET g == Built(Named(<<"A", "B", "C", "D">>),
                   <<<<"A", "B">>, <<"A", "C">>, <<"B", "D">>, <<"C", "D">>>>, 0)
    IN [cls |-> "Conception", g |-> g, root |-> Ref(g[1])]

ExampleRhs ==
    LET g == Built(Named(<<"A", "B", "E", "F">>),
                   <<<<"A", "B">>, <<"B", "E">>, <<"B", "F">>, <<"E", "F">>,
                     <<"F", "B">>>>, 4)
    IN [cls |-> "Conception", g |-> g, root |-> Ref(g[1])]

NoResult == [cls |-> "None", g |-> <<>>, root |-> NoRef]
NoOp == [op |-> "none", raised |-> "None"]

AInit ==
    /\ \/ \E vl \in VertexLists, vr \in VertexLists :
             \E jl \in ArcLists(vl), jr \in ArcLists(vr) :
                \E rl \in Roots(Built(vl, jl, 0)),
                   rr \in Roots(Built(vr, jr, Len(vl))),
                   cr \in {"Conception", "MetaGraph"} :
                   /\ cr = "MetaGraph" => rr = NoRef
                   /\ alhs = [cls |-> "Conception", g |-> Built(vl, jl, 0), root |-> rl]
                   /\ arhs = [cls |-> cr, g |-> Built(vr, jr, Len(vl)), root |-> rr]
       \/ alhs = ExampleLhs /\ arhs = ExampleRhs
    /\ aret = NoResult
    /\ acall = NoOp

\* u = alhs.op(arhs): the operands stay, u is the Conception returned.
Pure(op, r) ==
    /\ acall.op = "none"
    /\ acall' = [op |-> op, raised |-> r.raised]
    /\ aret' = IF r.raised = "None" THEN r.c ELSE NoResult
    /\ UNCHANGED <<alhs, arhs, gvars, tvars, svars, lvars>>

\* alhs.op_update(arhs): alhs is changed in place and returned.
Update(op, r) ==
    /\ acall.op = "none"
    /\ acall' = [op |-> op, raised |-> r.raised]
    /\ alhs' = r.c
    /\ aret' = IF r.raised = "None" THEN r.c ELSE NoResult
    /\ UNCHANGED <<arhs, gvars, tvars, svars, lvars>>

Union == Pure("union", union(alhs, arhs))
Intersection == Pure("intersection", intersection(alhs, arhs))
Difference == Pure("difference", difference(alhs, arhs))
SymmetricDifference == Pure("symmetric_difference", symmetric_difference(alhs, arhs))
CloneConception == Pure("clone", Conception_clone(alhs))
UnionUpdate == Update("union_update", union_update(alhs, arhs))
IntersectionUpdate == Update("intersection_update", intersection_update(alhs, arhs))
DifferenceUpdate == Update("difference_update", difference_update(alhs, arhs))
SymmetricDifferenceUpdate ==
    Update("symmetric_difference_update", symmetric_difference_update(alhs, arhs))

(***************************************************************************)
(* Language: the relation vocabulary over the store, and Knowledge[name].  *)
(* said records the last call, its arguments and the row it returned       *)
(* (NoRow for the verbs, which return None).                               *)
(***************************************************************************)
MaxFacts == 1

LNames == {"A", "B", "C"}

Programs == {"P"}

\* class Atomic(Enum): relation.name is the field, relation.value its value.
Atomic ==
    ("OF" :> 1) @@ ("HAS" :> 2) @@ ("IS_A" :> 3) @@ ("IN" :> 4) @@ ("FROM" :> 5)
        @@ ("TO" :> 6) @@ ("RELATES" :> 7) @@ ("CONTAINS" :> 8) @@ ("IS" :> 9)

\* metadata=None
NoMetadata == "None"

\* GraphDatabase.join(start, end, weight, guid, name): a new row of the arcs
\* table, its id the next row number, its anchor column empty.
db_join(st, start, end, weight, guid, name) ==
    [st EXCEPT !.arcs = Append(@, [id |-> Len(@) + 1, name |-> name, weight |-> weight,
                                    start |-> start, end |-> end, anchor |-> 0])]

\* edge[field] = value: a column of the arc's row when the field is one of
\* the schema's (Arc.is_property is false), a generic property otherwise.
is_property(field) ==
    field \notin {"id", "guid", "graph_id", "name", "clsid", "objid", "type", "weight",
                  "start", "end", "anchor"}

Arc_setitem(st, aid, field, value) ==
    IF is_property(field)
    THEN [st EXCEPT !.props = Append(@, [arc |-> aid, field |-> field, value |-> value])]
    ELSE [st EXCEPT !.arcs[aid].anchor = value]

get_node_always_adds(st, name) ==
    [store |-> add_vertex(st, name, to_id(name)),
     v |-> [id |-> to_id(name), name |-> name, value |-> 1, guid |-> "uuid4"]]

get_node(st, name) ==
    IF get_vertex_by_name(st, name) # NoRow
    THEN [store |-> st, v |-> get_vertex_by_name(st, name)]
    ELSE [store |-> add_vertex(st, name, to_id(name)),
          v |-> get_vertex_by_name(add_vertex(st, name, to_id(name)), name)]

link_without_anchor(st, a, b, relation, metadata) ==
    LET a_node == get_node(st, a)
        b_node == get_node(a_node.store, b)
        ln_name == IF metadata = NoMetadata THEN relation ELSE relation \o "." \o metadata
        joined == db_join(b_node.store, a_node.v.id, b_node.v.id, Atomic[relation], "None",
                          ln_name)
    IN [store |-> joined, edge |-> Len(joined.arcs)]

link(st, a, b, relation, metadata) ==
    LET a_node == get_node(st, a)
        b_node == get_node(a_node.store, b)
        ln_name == IF metadata = NoMetadata THEN relation ELSE relation \o "." \o metadata
        joined == db_join(b_node.store, a_node.v.id, b_node.v.id, Atomic[relation], "None",
                          ln_name)
        edge == Len(joined.arcs)
    IN IF metadata # NoMetadata
       THEN [store |-> Arc_setitem(get_node(joined, metadata).store, edge, "anchor",
                                   get_node(joined, metadata).v.id),
             edge |-> edge]
       ELSE [store |-> joined, edge |-> edge]

\* The verbs.  Of the two definitions of OF the class keeps the second.
Language_HAS(st, A, a, B) == link(st, A, B, "HAS", a).store

Language_IS_A(st, B, A) == link(st, B, A, "IS_A", NoMetadata).store

Language_IN(st, A, B) == link(st, B, A, "IS_A", NoMetadata).store

Language_FROM(st, A, B, P) ==
    Arc_setitem(link(st, A, B, "FROM", NoMetadata).store,
                link(st, A, B, "FROM", NoMetadata).edge, "program", P)

Language_TO(st, B, A, P) ==
    Arc_setitem(link(st, B, A, "TO", NoMetadata).store,
                link(st, B, A, "TO", NoMetadata).edge, "program", P)

Language_RELATES(st, A, B, c, by) == link(st, A, B, "RELATES", NoMetadata).store

Language_OF(st, B, A) == link(st, B, A, "OF", NoMetadata).store

Language_CONTAINS(st, A, B) == link(st, A, B, "CONTAINS", NoMetadata).store

Language_IS(st, A, B) == link(st, A, B, "IS", NoMetadata).store

\* A fresh store: no vertex, no arc, no property.
LInit ==
    /\ store = [vertices |-> <<>>, arcs |-> <<>>, props |-> <<>>]
    /\ concept = NoConcept
    /\ sphase = "idle"
    /\ sargs = NoSlice
    /\ strace = NoTrace
    /\ said = NoSaid

\* say.<verb>(args): one more fact, up to MaxFacts facts.
Say(verb, args, st) ==
    /\ Len(store.arcs) < MaxFacts
    /\ store' = st
    /\ said' = [verb |-> verb, args |-> args, ret |-> NoRow]
    /\ UNCHANGED <<gvars, tvars, avars, concept, sphase, sargs, strace>>

\* v = kb[name]
Getitem ==
    /\ \E name \in LNames :
        /\ store' = Knowledge_getitem(store, name).store
        /\ said' = [verb |-> "getitem", args |-> <<name>>,
                    ret |-> Knowledge_getitem(store, name).v]
    /\ UNCHANGED <<gvars, tvars, avars, concept, sphase, sargs, strace>>

\* id = Concept.to_id(name), for a name of the vocabulary or another one.
ToId ==
    /\ \E name \in LNames \cup {"Z"} :
        said' = [verb |-> "to_id", args |-> <<name>>, ret |-> [NoRow EXCEPT !.id = to_id(name)]]
    /\ UNCHANGED <<gvars, tvars, avars, svars>>

SayIS == \E A \in LNames, B \in LNames : Say("IS", <<A, B>>, Language_IS(store, A, B))

SayHAS ==
    \E A \in LNames, a \in LNames, B \in LNames :
        Say("HAS", <<A, a, B>>, Language_HAS(store, A, a, B))

SayIS_A == \E B \in LNames, A \in LNames : Say("IS_A", <<B, A>>, Language_IS_A(store, B, A))

SayIN == \E A \in LNames, B \in LNames : Say("IN", <<A, B>>, Language_IN(store, A, B))

SayFROM ==
    \E A \in LNames, B \in LNames, P \in Programs :
        Say("FROM", <<A, B, P>>, Language_FROM(store, A, B, P))

SayTO ==
    \E B \in LNames, A \in LNames, P \in Programs :
        Say("TO", <<B, A, P>>, Language_TO(store, B, A, P))

SayRELATES ==
    \E A \in LNames, B \in LNames, c \in LNames :
        Say("RELATES", <<A, B, c, "by">>, Language_RELATES(store, A, B, c, "by"))

SayCONTAINS ==
    \E A \in LNames, B \in LNames : Say("CONTAINS", <<A, B>>, Language_CONTAINS(store, A, B))

SayOF == \E B \in LNames, A \in LNames : Say("OF", <<B, A>>, Language_OF(store, B, A))

TIdle ==
    /\ tgraph = <<>>
    /\ tcfg = NoCfg
    /\ tlog = <<>>
    /\ tresult = "None"
    /\ tphase = "idle"

SIdle ==
    /\ store = [vertices |-> <<>>, arcs |-> <<>>]
    /\ concept = NoConcept
    /\ sphase = "idle"
    /\ sargs = NoSlice
    /\ strace = NoTrace

AIdle ==
    /\ alhs = Conception
    /\ arhs = Conception
    /\ aret = NoResult
    /\ acall = NoOp

LIdle == said = NoSaid

Init == GraphInit /\ TIdle /\ SIdle /\ AIdle /\ LIdle

Next ==
    \/ GraphAdd
    \/ GraphJoin
    \/ GraphDetach
    \/ GraphRemove
    \/ GraphFilter
    \/ GraphClone

Spec == Init /\ [][Next]_vars

\* The container with arcs that carry a vertex of the container as anchor.
NextAnchored ==
    \/ GraphAdd
    \/ GraphJoinAnchored
    \/ GraphRemove

SpecAnchored == Init /\ [][NextAnchored]_vars

GIdle ==
    /\ graph = [c \in Containers |-> <<>>]
    /\ last = NoCall

InitTraverse == GIdle /\ TInit /\ SIdle /\ AIdle /\ LIdle

SpecTraverse == InitTraverse /\ [][Dfs \/ Bfs]_vars

InitSlice == GIdle /\ TIdle /\ SInit /\ AIdle /\ LIdle

SpecSlice == InitSlice /\ [][Slice]_vars

InitAlgebra == GIdle /\ TIdle /\ SIdle /\ AInit /\ LIdle

NextAlgebra ==
    \/ Union
    \/ Intersection
    \/ Difference
    \/ SymmetricDifference
    \/ CloneConception
    \/ UnionUpdate
    \/ IntersectionUpdate
    \/ DifferenceUpdate
    \/ SymmetricDifferenceUpdate

SpecAlgebra == InitAlgebra /\ [][NextAlgebra]_vars

InitLanguage == GIdle /\ TIdle /\ LInit /\ AIdle

NextLanguage ==
    \/ Getitem
    \/ ToId
    \/ SayIS
    \/ SayHAS
    \/ SayIS_A
    \/ SayIN
    \/ SayFROM
    \/ SayTO
    \/ SayRELATES
    \/ SayCONTAINS
    \/ SayOF

SpecLanguage == InitLanguage /\ [][NextLanguage]_vars

(***************************************************************************)
(* Claims about the container, checked under Spec.                         *)
(***************************************************************************)

\* C1: after remove(v), v a member, no arc left in the container starts or
\* ends at v (also when several vertices carry the same id).
C1_RemoveLeavesNoArc ==
    last.op = "remove" =>
        \A a \in ArcsOf(graph[last.c]) :
            a.start.obj # last.v.obj /\ a.end.obj # last.v.obj

\* C2: referential integrity: the start and the end of every stored arc are
\* vertices currently present in the same container.
C2_ReferentialIntegrity ==
    \A c \in Containers :
        \A a \in ArcsOf(graph[c]) :
            a.start.obj \in Objs(graph[c]) /\ a.end.obj \in Objs(graph[c])

\* C3: add(vertex) inserts the vertex and returns True when the name is free;
\* when the name is taken it returns False and changes nothing; no other
\* outcome (no exception) exists.
NameTaken(g, n) == \E i \in 1..Len(g) : g[i].name = n

C3_AddContract ==
    [][last'.op = "add" =>
        LET g == graph[last'.c]
            v == last'.v
        IN IF NameTaken(g, v.name)
           THEN last'.ret = "False" /\ graph' = graph
           ELSE /\ last'.ret = "True"
                /\ Len(graph'[last'.c]) = Len(g) + 1
                /\ SubSeq(graph'[last'.c], 1, Len(g)) = g
                /\ Ref(graph'[last'.c][Len(g) + 1]) = v
                /\ graph'[last'.c][Len(g) + 1].arcs = <<>>
                /\ \A d \in Containers \ {last'.c} : graph'[d] = graph[d]]_vars

C3_Witness ==
    /\ last.op = "add"
    /\ last.ret = "False"
    /\ num_arcs(graph[last.c]) > 0

\* C4: join returns None and leaves the container unchanged when a key does
\* not resolve; otherwise exactly one arc carrying the given weight, name,
\* anchor, guid and id is appended to the arc list of the start vertex, and
\* nothing else changes.
Matches(v, key) == IF key.int THEN v.id = key.id ELSE v.name = key.name
Resolved(g, key) == {i \in 1..Len(g) : Matches(g[i], key) /\ \A k \in 1..(i - 1) : ~Matches(g[k], key)}

C4_JoinContract ==
    [][last'.op = "join" =>
        LET g == graph[last'.c]
            h == graph'[last'.c]
            sa == Resolved(g, last'.a)
            sb == Resolved(g, last'.b)
            args == last'.args
        IN IF sa = {} \/ sb = {}
           THEN last'.ret = "None" /\ graph' = graph
           ELSE /\ last'.ret = "Arc"
                /\ Len(h) = Len(g)
                /\ \A i \in 1..Len(g) :
                      IF i \in sa
                      THEN /\ Len(h[i].arcs) = Len(g[i].arcs) + 1
                           /\ SubSeq(h[i].arcs, 1, Len(g[i].arcs)) = g[i].arcs
                           /\ [h[i] EXCEPT !.arcs = <<>>] = [g[i] EXCEPT !.arcs = <<>>]
                           /\ LET arc == h[i].arcs[Len(h[i].arcs)]
                              IN /\ arc.start.obj = g[i].obj
                                 /\ \E k \in sb : arc.end.obj = g[k].obj
                                 /\ arc.weight = args.weight
                                 /\ arc.name = args.name
                                 /\ arc.anchor = args.anchor
                                 /\ arc.guid = args.guid
                                 /\ arc.id = args.aid
                      ELSE h[i] = g[i]
                /\ \A d \in Containers \ {last'.c} : graph'[d] = graph[d]]_vars

C4_Witness ==
    /\ last.op = "join"
    /\ last.ret = "Arc"
    /\ \E i \in 1..Len(graph[last.c]) :
          /\ Len(graph[last.c][i].arcs) = 2
          /\ graph[last.c][i].arcs[2].end.obj # graph[last.c][i].obj

(***************************************************************************)
(* Claims about the traversal protocol, checked under SpecTraverse.        *)
(***************************************************************************)
Walked == tphase \in {"dfs", "bfs"}
Logged(kind, v) == \E k \in DOMAIN tlog : tlog[k].kind = kind /\ tlog[k].v = v
Touched(v) == \E k \in DOMAIN tlog : tlog[k].v = v

\* The vertices a walk can reach from the root when the arcs leaving n are
\* not followed (anchors count only when they are visited).
WithoutArcsOf(g, n, anchors) ==
    [v \in TV |-> [arcs |-> IF v = n THEN <<>> ELSE g[v].arcs,
                   anchor |-> IF anchors THEN g[v].anchor ELSE 0]]

OnlyThrough(n) ==
    TReach(WithoutArcsOf(tgraph, 0, tcfg.visitanchor), {TRoot})
        \ TReach(WithoutArcsOf(tgraph, n, tcfg.visitanchor), {TRoot})

\* C5: in dfs, when the visit callback returns ERROR_NO_MORE_ITEMS for a
\* vertex n, no callback is invoked on a vertex that is reachable from the
\* root only through the arcs leaving n.
C5_SkipSubtreeDoesNotDescend ==
    tphase = "dfs" =>
        \A k \in DOMAIN tlog :
            (tlog[k].kind = "fn" /\ tlog[k].result = ERROR_NO_MORE_ITEMS) =>
                \A m \in OnlyThrough(tlog[k].v) : ~Touched(m)

\* C6: in dfs, when a callback returns ERROR_NO_MORE_ITEMS for a vertex n
\* reached through an arc of its parent p, every arc target of p that comes
\* after n in the arc list of p is still visited, and the walk does not end
\* with a stop code.  Stated for p the root and anchor visiting off, where a
\* callback made at level depth-1 is one made in the loop over the root's arcs.
FirstIndex(q, x) == First({i \in 1..Len(q) : q[i] = x})

C6_PrunedBranchKeepsWalking ==
    (tphase = "dfs" /\ ~tcfg.visitanchor) =>
        \A k \in DOMAIN tlog :
            (tlog[k].result = ERROR_NO_MORE_ITEMS /\ tlog[k].level = tcfg.depth - 1) =>
                /\ \A j \in 1..Len(tgraph[TRoot].arcs) :
                      (/\ j > FirstIndex(tgraph[TRoot].arcs, tlog[k].v)
                       /\ tgraph[TRoot].arcs[j] # tlog[k].v)
                          => Logged("fn", tgraph[TRoot].arcs[j])
                /\ tresult \in Proceed

\* C7: in dfs, a callback that returns a stop code (anything but NOERROR,
\* ERROR_CONTINUE and ERROR_NO_MORE_ITEMS) is the last callback invoked, and
\* its code is the result of the traversal.
C7_StopPropagates ==
    tphase = "dfs" =>
        \A k \in DOMAIN tlog :
            tlog[k].result \notin (Proceed \cup {ERROR_NO_MORE_ITEMS}) =>
                k = Len(tlog) /\ tresult = tlog[k].result

C7_Witness ==
    /\ tphase = "dfs"
    /\ Len(tlog) >= 4
    /\ tlog[Len(tlog)].result = ERROR_FAIL
    /\ tlog[Len(tlog)].kind = "post"
    /\ tresult = ERROR_FAIL
    /\ \E j \in 1..Len(tgraph[TRoot].arcs) : ~Touched(tgraph[TRoot].arcs[j])

\* C8: within one dfs or bfs the visit callback is invoked at most once per
\* vertex, anchors included.
C8_VisitedAtMostOnce ==
    Walked =>
        \A v \in TV :
            Cardinality({k \in DOMAIN tlog : tlog[k].kind = "fn" /\ tlog[k].v = v}) <= 1

(***************************************************************************)
(* Claims about Knowledge.slice, checked under SpecSlice.                  *)
(***************************************************************************)
ConceptIds == {concept.g[i].id : i \in 1..Len(concept.g)}
ConceptNames == {concept.g[i].name : i \in 1..Len(concept.g)}

\* C9: slice(root, depth), depth >= 0, returns exactly the vertices within
\* depth hops of the root, a hop leading from the start of an arc to its end
\* or to its anchor.
C9_SliceIsExactlyTheBall ==
    (sphase = "sliced" /\ sargs.depth >= 0) =>
        ConceptIds = WithinHops(store.arcs, {to_id(sargs.name)}, sargs.depth)

IsExampleSlice ==
    /\ sphase = "sliced"
    /\ store \in ExampleStores
    /\ sargs = [name |-> "A", depth |-> 2]

\* C10 as stated: on the example store, slice('A', 2) holds A, B, C and D
\* once each and exactly 3 arcs.
C10_ExampleHasThreeArcs ==
    IsExampleSlice =>
        /\ ConceptNames = {"A", "B", "C", "D"}
        /\ Len(concept.g) = 4
        /\ num_arcs(concept.g) = 3

\* C10 as amended: on the example store, slice('A', 2) holds A, B, C and D
\* once each and all 4 arcs of the store, each arc once.
C10_ExampleHasFourArcs ==
    IsExampleSlice =>
        /\ ConceptNames = {"A", "B", "C", "D"}
        /\ Len(concept.g) = 4
        /\ num_arcs(concept.g) = 4
        /\ {<<a.start.id, a.end.id>> : a \in ArcsOf(concept.g)}
             = {<<store.arcs[i].start, store.arcs[i].end>> : i \in 1..Len(store.arcs)}

C10_Witness ==
    /\ IsExampleSlice
    /\ Len(concept.g) = 4
    /\ concept.root.name = "A"

\* The store is the cycle A -> B -> A and the call was slice('A', 5).
IsCycleSlice ==
    /\ sphase = "sliced"
    /\ sargs = [name |-> "A", depth |-> 5]
    /\ Len(store.arcs) = 2
    /\ {<<store.arcs[i].start, store.arcs[i].end, store.arcs[i].anchor>> :
            i \in 1..Len(store.arcs)}
         = {<<to_id("A"), to_id("B"), 0>>, <<to_id("B"), to_id("A"), 0>>}

\* C11: slice returns on every store and every depth, after at most one call
\* of __traverse_subgraph for the root and three for each arc of the store,
\* whatever the depth; the result holds each vertex once; on the cycle
\* A -> B -> A, slice('A', 5) holds the vertices A and B and the two arcs
\* A -> B and B -> A, each once.
C11_SliceCycleSafe ==
    sphase = "sliced" =>
        /\ strace.raised = "None"
        /\ strace.calls <= 1 + 3 * Len(store.arcs)
        /\ Cardinality(ConceptNames) = Len(concept.g)
        /\ Cardinality(ConceptIds) = Len(concept.g)
        /\ IsCycleSlice =>
              /\ ConceptNames = {"A", "B"}
              /\ num_arcs(concept.g) = 2
              /\ {<<a.start.name, a.end.name>> : a \in ArcsOf(concept.g)}
                   = {<<"A", "B">>, <<"B", "A">>}

C11_Witness ==
    /\ IsCycleSlice
    /\ Len(concept.g) = 2
    /\ strace.calls = 5

\* C12: slice of a root name the store does not hold raises ValueError and
\* returns no Conception.
C12_AbsentRootIsNotFound ==
    (sphase = "sliced" /\ ~strace.present) =>
        /\ strace.raised = "ValueError"
        /\ concept = NoConcept

(***************************************************************************)
(* Claims about the set algebra of Conception, checked under SpecAlgebra.  *)
(***************************************************************************)
SymDiff(S, T) == (S \ T) \cup (T \ S)

\* C13: u = A.union(B) returns and u.to_set() = A.to_set() | B.to_set().
C13_UnionToSet ==
    acall.op = "union" =>
        /\ acall.raised = "None"
        /\ to_set(aret.g) = to_set(alhs.g) \cup to_set(arhs.g)

IsExampleOperands == alhs = ExampleLhs /\ arhs = ExampleRhs

\* C14: A.intersection(B) returns with the id set A.to_set() & B.to_set(),
\* A.difference(B) returns with the id set A.to_set() - B.to_set(); on the
\* example operands the intersection has the ids of A and B.
C14_IntersectionDifferenceToSet ==
    /\ acall.op = "intersection" =>
          /\ acall.raised = "None"
          /\ to_set(aret.g) = to_set(alhs.g) \cap to_set(arhs.g)
          /\ IsExampleOperands => to_set(aret.g) = {to_id("A"), to_id("B")}
    /\ acall.op = "difference" =>
          /\ acall.raised = "None"
          /\ to_set(aret.g) = to_set(alhs.g) \ to_set(arhs.g)

\* The number of arcs of g both of whose endpoints have an id in ids.
RECURSIVE Surviving(_, _, _)
Surviving(g, ids, i) ==
    IF i > Len(g) THEN 0
    ELSE Len(SelectSeq(g[i].arcs, LAMBDA a : a.start.id \in ids /\ a.end.id \in ids))
             + Surviving(g, ids, i + 1)

\* C15: A.symmetric_difference(B) returns with the id set
\* A.to_set() ^ B.to_set() and holds each arc of A or B whose endpoints both
\* survive once, no arc twice.
C15_SymmetricDifference ==
    acall.op = "symmetric_difference" =>
        /\ acall.raised = "None"
        /\ to_set(aret.g) = SymDiff(to_set(alhs.g), to_set(arhs.g))
        /\ num_arcs(aret.g)
             = Surviving(alhs.g, SymDiff(to_set(alhs.g), to_set(arhs.g)), 1)
               + Surviving(arhs.g, SymDiff(to_set(alhs.g), to_set(arhs.g)), 1)

\* C16: union, intersection, difference and symmetric_difference return a
\* Conception, leave both operands as they were, and the Conception
\* returned shares no vertex object with the receiver.
C16_OperandsUnchanged ==
    [][acall'.op \in {"union", "intersection", "difference", "symmetric_difference"} =>
          /\ acall'.raised = "None"
          /\ alhs' = alhs
          /\ arhs' = arhs
          /\ Objs(aret'.g) \cap Objs(alhs.g) = {}]_vars

ArcKey(a) == <<a.start.name, a.end.name, a.name>>
CountKey(arcs, k) == Len(SelectSeq(arcs, LAMBDA a : ArcKey(a) = k))

\* C17: union_update(rhs) returns; every vertex of the receiver stays, with
\* its arcs as a prefix of its new arc list; an arc the receiver already
\* held (same start name, end name and label) is not added again.
C17_UnionUpdateAddsOnlyNew ==
    [][acall'.op = "union_update" =>
          /\ acall'.raised = "None"
          /\ Len(alhs'.g) >= Len(alhs.g)
          /\ \A i \in 1..Len(alhs.g) :
                /\ alhs'.g[i].obj = alhs.g[i].obj
                /\ SubSeq(alhs'.g[i].arcs, 1, Len(alhs.g[i].arcs)) = alhs.g[i].arcs
                /\ \A j \in 1..Len(alhs.g[i].arcs) :
                      CountKey(alhs'.g[i].arcs, ArcKey(alhs.g[i].arcs[j]))
                        = CountKey(alhs.g[i].arcs, ArcKey(alhs.g[i].arcs[j]))]_vars

\* A vertex by value: its fields and its arcs, endpoints by name.
ArcValue(a) == [id |-> a.id, name |-> a.name, weight |-> a.weight, guid |-> a.guid,
                start |-> a.start.name, end |-> a.end.name]
VertexValue(v) == [id |-> v.id, name |-> v.name, weight |-> v.weight, guid |-> v.guid,
                   arcs |-> [j \in 1..Len(v.arcs) |-> ArcValue(v.arcs[j])]]

\* C18: clone() returns a Conception with the same vertices, the same arcs
\* per vertex and a root of the same name, made of new objects.
C18_CloneIsEqual ==
    acall.op = "clone" =>
        /\ acall.raised = "None"
        /\ Len(aret.g) = Len(alhs.g)
        /\ {VertexValue(aret.g[i]) : i \in 1..Len(aret.g)}
             = {VertexValue(alhs.g[i]) : i \in 1..Len(alhs.g)}
        /\ aret.root.name = alhs.root.name
        /\ Objs(aret.g) \cap Objs(alhs.g) = {}

(***************************************************************************)
(* Claims about the relation vocabulary, checked under SpecLanguage.       *)
(***************************************************************************)
VertexNames(st) == {st.vertices[i].name : i \in 1..Len(st.vertices)}

\* The rows of st followed by one new row for each of the names, in order,
\* that st and the names before it lack.
RECURSIVE WithAbsent(_, _)
WithAbsent(st, names) ==
    IF names = <<>> THEN st.vertices
    ELSE IF Head(names) \in VertexNames(st) THEN WithAbsent(st, Tail(names))
    ELSE WithAbsent([st EXCEPT !.vertices =
                        Append(@, [id |-> to_id(Head(names)), name |-> Head(names),
                                   value |-> 1, guid |-> "uuid4"])],
                    Tail(names))

\* C19: Language.HAS(subject, anchor, object) adds exactly one arc to the
\* store, from the subject vertex to the object vertex, labelled
\* 'HAS.<anchor>', whose anchor field holds the id of the vertex named
\* anchor; the three vertices are resolved by name and created only if
\* absent, so the arc read back yields the subject, object and anchor names.
C19_HasAddsOneAnchoredArc ==
    [][said'.verb = "HAS" =>
        LET subject == said'.args[1]
            anchor == said'.args[2]
            object == said'.args[3]
            edge == store'.arcs[Len(store'.arcs)]
        IN /\ Len(store'.arcs) = Len(store.arcs) + 1
           /\ SubSeq(store'.arcs, 1, Len(store.arcs)) = store.arcs
           /\ edge.name = "HAS." \o anchor
           /\ edge.start = get_vertex_by_name(store', subject).id
           /\ edge.end = get_vertex_by_name(store', object).id
           /\ edge.anchor = get_vertex_by_name(store', anchor).id
           /\ db_get_vertex(store', edge.start).name = subject
           /\ db_get_vertex(store', edge.end).name = object
           /\ db_get_vertex(store', edge.anchor).name = anchor
           /\ store'.vertices = WithAbsent(store, <<subject, object, anchor>>)]_vars

\* A HAS fact on three different names, of which the store held none.
C19_Witness ==
    /\ said.verb = "HAS"
    /\ Cardinality({said.args[1], said.args[2], said.args[3]}) = 3
    /\ Len(store.arcs) = 1
    /\ store.arcs[1].name = "HAS." \o said.args[2]
    /\ store.arcs[1].anchor = to_id(said.args[2])
    /\ Len(store.vertices) = 3

UniqueNames(st) ==
    \A i, j \in 1..Len(st.vertices) : st.vertices[i].name = st.vertices[j].name => i = j

\* C20: after any sequence of Knowledge[name] lookups and verb calls the
\* store holds at most one vertex per name; a lookup of an absent name
\* creates exactly one vertex, named by that name and with the id
\* Concept.to_id(name), and a lookup of a present name creates nothing and
\* returns the existing vertex.
C20_LookupKeepsNamesUnique ==
    /\ []UniqueNames(store)
    /\ [][said'.verb = "getitem" =>
            LET name == said'.args[1]
            IN IF name \in VertexNames(store)
               THEN /\ store' = store
                    /\ said'.ret = get_vertex_by_name(store, name)
                    /\ said'.ret.name = name
               ELSE /\ Len(store'.vertices) = Len(store.vertices) + 1
                    /\ SubSeq(store'.vertices, 1, Len(store.vertices)) = store.vertices
                    /\ store'.vertices[Len(store'.vertices)].name = name
                    /\ store'.vertices[Len(store'.vertices)].id = to_id(name)
                    /\ store'.arcs = store.arcs
                    /\ said'.ret = store'.vertices[Len(store'.vertices)]]_vars

\* A lookup that returned the vertex created last, in a store that holds a
\* fact and all the names.
C20_Witness ==
    /\ said.verb = "getitem"
    /\ Len(store.arcs) = 1
    /\ VertexNames(store) = LNames
    /\ said.ret = store.vertices[Len(store.vertices)]
    /\ said.ret.name = said.args[1]
    /\ said.ret.id = to_id(said.args[1])

(***************************************************************************)
(* Claims about Concept.to_id, checked under SpecLanguage.                 *)
(***************************************************************************)
\* 0 .. 2^32-1
UInt32(x) == x \in Nat /\ x \div 65536 < 65536

RECURSIVE WithinArcs(_, _, _)
WithinArcs(g, R, d) ==
    IF d <= 0 THEN R
    ELSE WithinArcs(g, R \cup UNION {{g[v].arcs[i] : i \in 1..Len(g[v].arcs)} : v \in R},
                    d - 1)

\* The number of arcs on a shortest path from the root to v.
Distance(g, v) == CHOOSE d \in 0..Cardinality(TV) : 
    /\ v \in WithinArcs(g, {TRoot}, d)
    /\ \A e \in 0..(d - 1) : v \notin WithinArcs(g, {TRoot}, e)

FnAt(i) == tlog[i].kind = "fn"

Chain == tgraph[1].arcs = <<2>> /\ tgraph[2].arcs = <<3>> /\ tgraph[3].arcs = <<>>

\* C22: bfs from a root with maximum depth d visits every vertex reachable
\* from the root by at most d-1 arcs, in level order: the vertices at hop
\* distance k receive their visit callback before any vertex at distance
\* k+1.
C22_BfsLevelOrder ==
    (tphase = "bfs" /\ tcfg.depth >= 1 /\ tcfg.dev = {} /\ ~tcfg.visitanchor) =>
        /\ tresult \in Proceed
        /\ \A v \in WithinArcs(tgraph, {TRoot}, tcfg.depth - 1) :
              \E i \in 1..Len(tlog) : FnAt(i) /\ tlog[i].v = v
        /\ \A i, j \in 1..Len(tlog) :
              (FnAt(i) /\ FnAt(j) /\ i < j) =>
                  Distance(tgraph, tlog[i].v) <= Distance(tgraph, tlog[j].v)

\* C23: with anchor visiting disabled, dfs with depth d >= 1 invokes the
\* visit callback only on vertices at most d-1 arcs from the root; dfs or
\* bfs with depth <= 0 invokes no callback and returns NOERROR.
C23_DepthBoundsWalk ==
    /\ (tphase = "dfs" /\ tcfg.depth >= 1 /\ ~tcfg.visitanchor) =>
          \A i \in 1..Len(tlog) :
              FnAt(i) => tlog[i].v \in WithinArcs(tgraph, {TRoot}, tcfg.depth - 1)
    /\ (tphase \in {"dfs", "bfs"} /\ tcfg.depth <= 0) => (tlog = <<>> /\ tresult = NOERROR)

\* dfs with depth 2 on the chain 1 -> 2 -> 3: 2 is visited, 3 is not.
C23_Witness ==
    /\ tphase = "dfs"
    /\ tcfg.depth = 2
    /\ ~tcfg.visitanchor
    /\ tcfg.dev = {}
    /\ Chain
    /\ \E i \in 1..Len(tlog) : FnAt(i) /\ tlog[i].v = 2
    /\ \A i \in 1..Len(tlog) : tlog[i].v # 3

\* The vertices reachable from the root along arcs alone.
ArcReach == WithinArcs(tgraph, {TRoot}, Cardinality(TV))

IsCall(i, kind, v) == i <= Len(tlog) /\ tlog[i].kind = kind /\ tlog[i].v = v

\* C24: with anchor visiting enabled, when dfs visits a vertex n that has an
\* anchor and the visit of n returns CONTINUE, the callbacks of the anchor
\* run next, in the order pre-order hook, visit, post-order hook (each as
\* long as the one before returns CONTINUE), before any callback on a target
\* of n's arcs; with anchor visiting disabled only the root and the targets
\* of arcs receive callbacks.
C24_AnchorVisitedNext ==
    /\ (tphase = "dfs" /\ tcfg.visitanchor) =>
          \A i \in 1..Len(tlog) :
              (FnAt(i) /\ tgraph[tlog[i].v].anchor # 0 /\ tlog[i].result \in Proceed) =>
                  LET a == tgraph[tlog[i].v].anchor
                  IN IF tcfg.preproc
                     THEN /\ IsCall(i + 1, "pre", a)
                          /\ tlog[i + 1].result \in Proceed => IsCall(i + 2, "fn", a)
                          /\ (tlog[i + 1].result \in Proceed /\ tlog[i + 2].result \in Proceed)
                                => IsCall(i + 3, "post", a)
                     ELSE IsCall(i + 1, "fn", a)
    /\ (tphase = "dfs" /\ ~tcfg.visitanchor) =>
          \A i \in 1..Len(tlog) : tlog[i].v \in ArcReach

\* C26: dfs from any vertex of a finite graph, with cycles, self-loops and
\* anchors that point back into the walk, returns a result for every depth
\* when each callback returns: the call ends with one of the codes, after at
\* most six callbacks for each vertex (hook, visit and hook as the target of
\* an arc, and the same as an anchor).
C26_DfsReturns ==
    tphase = "dfs" =>
        /\ tresult \in {NOERROR, ERROR_CONTINUE, ERROR_FAIL}
        /\ Len(tlog) <= 6 * Cardinality(TV)

\* A walk with anchors enabled from a root whose anchor has an arc back to
\* the root, which has a self-loop.
C26_Witness ==
    /\ tphase = "dfs"
    /\ tcfg.visitanchor
    /\ tcfg.depth = MaxDepth
    /\ tgraph[1].anchor = 2
    /\ tgraph[1].arcs = <<1>>
    /\ tgraph[2].arcs = <<1>>
    /\ tresult \in Proceed
    /\ Len(tlog) >= 2

\* The log from position i on closes the hooks that are open, innermost
\* first: open is the stack of the vertices whose pre-order hook has run
\* and whose post-order hook has not, each with whether its visit has run.
RECURSIVE Balanced(_, _, _)
Balanced(log, i, open) ==
    IF i > Len(log) THEN open = <<>>
    ELSE LET top == open[Len(open)]
             rest == SubSeq(open, 1, Len(open) - 1)
         IN CASE log[i].kind = "pre" ->
                    Balanced(log, i + 1, Append(open, [v |-> log[i].v, seen |-> FALSE]))
              [] log[i].kind = "fn" ->
                    IF open # <<>> /\ top.v = log[i].v /\ ~top.seen
                    THEN Balanced(log, i + 1, Append(rest, [top EXCEPT !.seen = TRUE]))
                    ELSE i = 1 /\ Balanced(log, i + 1, open)
              [] log[i].kind = "post" ->
                    /\ open # <<>>
                    /\ top.v = log[i].v
                    /\ top.seen
                    /\ Balanced(log, i + 1, rest)

Count(log, kind) == Cardinality({i \in 1..Len(log) : log[i].kind = kind})

\* C30: in a dfs with both hooks in which every callback returns CONTINUE,
\* each pre-order invocation on a vertex is followed by one post-order
\* invocation on the same vertex with the visit of that vertex between the
\* two, and when the walk returns the pre-order and the post-order
\* invocations are equal in number (the indent of Conception.__str__ is 0).
C30_HooksBalanced ==
    (/\ tphase = "dfs"
     /\ tcfg.preproc
     /\ tcfg.postproc
     /\ \A i \in 1..Len(tlog) : tlog[i].result \in Proceed) =>
        /\ Balanced(tlog, 1, <<>>)
        /\ Count(tlog, "pre") = Count(tlog, "post")
        /\ tresult \in Proceed

\* The walk of Conception.__str__ over a root with an anchor and an arc.
C30_Witness ==
    /\ tphase = "dfs"
    /\ tcfg.preproc
    /\ tcfg.postproc
    /\ tcfg.visitanchor
    /\ tcfg.dev = {}
    /\ tgraph[1].anchor = 2
    /\ tgraph[1].arcs = <<3>>
    /\ Count(tlog, "pre") = 2
    /\ Count(tlog, "post") = 2
    /\ Count(tlog, "fn") = 3

(***************************************************************************)
(* Claims about anchors in the container, checked under SpecAnchored.      *)
(***************************************************************************)
\* C27: after MetaGraph.remove(v) no arc remaining in the container has v
\* as its anchor.
C27_RemoveLeavesNoAnchor ==
    last.op = "remove" =>
        \A a \in ArcsOf(graph[last.c]) : a.anchor.obj # last.v.obj

(***************************************************************************)
(* Claims about the two phases and the frame of a slice, checked under     *)
(* SpecSlice.                                                              *)
(***************************************************************************)
\* C28: Knowledge.slice(name, depth) is read-only on the store: for every
\* name, present or absent, and every depth the vertex rows and the arc rows
\* are the same after the call as before it.
C28_SliceLeavesStore == [][sphase' = "sliced" => store' = store]_vars

\* The traversal of the slice last made, as load runs it before it links.
Discovered ==
    traverse_subgraph(store, [concept |-> <<>>, links |-> <<>>, c |-> NoRef, calls |-> 0],
                      get_vertex_by_name(store, sargs.name), sargs.depth)

HasId(g, id) == \E i \in 1..Len(g) : g[i].id = id

\* C25: slicing is two-phase: no arc is joined into the result until the
\* traversal has returned, and every stored arc recorded for a cloned vertex
\* whose end vertex is also in the result is present in the result, also
\* when the end was discovered later in the walk than the start.
C25_TwoPhaseSlice ==
    (sphase = "sliced" /\ strace.raised = "None") =>
        LET walked == Discovered
            present == {concept.g[i].id : i \in 1..Len(concept.g)}
            joined == ArcsOf(concept.g)
        IN /\ num_arcs(walked.concept) = 0
           /\ \A v \in 1..Len(walked.concept) : walked.concept[v].id \in present
           /\ \A k \in 1..Len(walked.links) :
                 \A i \in 1..Len(walked.links[k].arcs) :
                     LET a == get_arc(store, walked.links[k].arcs[i])
                     IN (walked.links[k].start \in present /\ a.end \in present) =>
                           \E x \in joined :
                               /\ x.start.id = a.start
                               /\ x.end.id = a.end
                               /\ x.weight = a.weight
                               /\ x.name = a.name

\* A slice of the example store from "A" at depth 2: the arc from "B" to "D"
\* is recorded when "B" is cloned, before "D" is discovered, and is in the
\* result.
C25_Witness ==
    /\ sphase = "sliced"
    /\ store \in ExampleStores
    /\ sargs = [name |-> "A", depth |-> 2]
    /\ HasId(concept.g, to_id("D"))
    /\ \E x \in ArcsOf(concept.g) : x.start.id = to_id("B") /\ x.end.id = to_id("D")

(***************************************************************************)
(* Claims about the root of a Conception, checked under SpecAlgebra.       *)
(***************************************************************************)
\* root is None exactly when c has no vertices, and else a member of c.
RootConsistent(c) ==
    IF c.g = <<>> THEN c.root = NoRef
    ELSE c.root # NoRef /\ c.root.obj \in Objs(c.g)

\* C29: the root of a Conception is consistent with its contents: an
\* operation that returns, on a Conception whose root is consistent, leaves
\* the root None exactly when there are no vertices, and a member otherwise.
C29_RootConsistent ==
    [][(RootConsistent(alhs) /\ acall'.op # "none" /\ acall'.raised = "None") =>
            RootConsistent(alhs')]_vars

====
